---------------------------- MODULE Spec2Model ----------------------------
(***************************************************************************)
(* A model of the numerical core of btx:                                   *)
(*   - the panel mapper of btx/interfaces/psana_interface.py               *)
(*     (assemble_image_stack_batch, disassemble_image_stack_batch);        *)
(*   - the time tool calibrator of btx/timetool/rawimagetimetool.py        *)
(*     (RawImageTimeTool).                                                 *)
(*                                                                         *)
(* numpy arrays are records [shape, data]: shape is the tuple of axis      *)
(* lengths and data maps every index tuple (0-based, as in numpy) to the   *)
(* element stored there.                                                   *)
(***************************************************************************)
EXTENDS Integers, Sequences, FiniteSets, TLC

(***************************************************************************)
(* Bounds of the model.                                                    *)
(***************************************************************************)
\* most pixels (panels * fast * slow) an index map or a panel stack holds
MaxPixels == 2
\* largest row / column index an index map holds
MaxIdx == 1
\* largest batch size of a 4d image stack
MaxBatch == 2
\* most elements (batch * panels * fast * slow) a 4d image stack holds
MaxElems == 4

\* most events a run holds
MaxEvents == 2
\* columns of a time tool camera image
ProjLen == 3
\* half the length of the edge detection kernel (the first half is ones):
\* the source's 150 of 300, scaled to the model's images
KernelHalf == 2
\* most samples fit_calib is given
MaxSamples == 2
\* most events a run of the PsanaInterface holds
MaxTimes == 4
\* most ranks the events are distributed over
MaxRanks == 3
\* most images one get_images call asks for
MaxImages == 3
\* fit_calib's default polynomial order; the model fits orders 0 to this one
DefaultOrder == 2

\* the pixel values of the model; 0 is also the fill value of np.zeros
PixelValues == {0, 1}
\* the column sums of a cropped time tool image
ProjValues == {0, 1}
\* the stage delays (ns) the control system reports
Delays == {1, 2}
\* polynomial coefficients (np.polyfit's results, a file's contents)
CoeffValues == {0, 1}
\* edge positions fit_calib is given: both sides of both limits
EdgeValues == {250, 251, 869, 870}
\* edge positions and nominal delays the corrections are asked for
EdgePositions == {0, 2, 10}
NominalDelays == {0, 5}
\* experiment hutches (the first three letters of the experiment name)
Hutches ==
    {"xpp", "xcs", "mfx", "cxi", "XPP", "Xcs", "MFX", "cXI", "amo", "AMO", "det", ""}

VARIABLES
    pixel_index_map,    \* the index map both mapper functions are given
    image_stack,        \* the panel stack given to assemble_image_stack_batch
    images,             \* what assemble_image_stack_batch did with it
    image_stack_batch,  \* what disassemble_image_stack_batch did with images
    disassemble_arg,    \* the array disassemble_image_stack_batch was given
    hutch,              \* RawImageTimeTool.hutch
    _model,             \* RawImageTimeTool._model
    ds,                 \* RawImageTimeTool.ds: the events of the opened run
    rundata,            \* the events the facility recorded for the run
    calib_data,         \* the delays and edges the caller holds for fit_calib
    last,               \* the last call on either object and its outcome
    counter,            \* PsanaInterface.counter
    max_events,         \* PsanaInterface.max_events
    times,              \* PsanaInterface.times: the run's events, by index
    calibrate           \* PsanaInterface.calibrate

mapper_vars ==
    <<pixel_index_map, image_stack, images, image_stack_batch, disassemble_arg>>

tool_vars == <<hutch, _model, ds, rundata, calib_data, last>>

interface_vars == <<counter, max_events, times, calibrate>>

vars == <<pixel_index_map, image_stack, images, image_stack_batch,
          disassemble_arg, hutch, _model, ds, rundata, calib_data, last,
          counter, max_events, times, calibrate>>

(***************************************************************************)
(* numpy arrays                                                            *)
(***************************************************************************)
Range(n) == 0..(n - 1)

\* every index tuple of an array of the given shape (1 to 4 axes)
Indices(shape) ==
    CASE Len(shape) = 1 -> {<<a>> : a \in Range(shape[1])}
      [] Len(shape) = 2 -> Range(shape[1]) \X Range(shape[2])
      [] Len(shape) = 3 -> Range(shape[1]) \X Range(shape[2]) \X Range(shape[3])
      [] Len(shape) = 4 -> Range(shape[1]) \X Range(shape[2]) \X Range(shape[3])
                               \X Range(shape[4])

NdArrays(shape, values) ==
    {[shape |-> shape, data |-> d] : d \in [Indices(shape) -> values]}

\* np.zeros(shape)
Zeros(shape) == [shape |-> shape, data |-> [i \in Indices(shape) |-> 0]]

\* np.expand_dims(a, 0)
ExpandDims(a) ==
    [shape |-> <<1>> \o a.shape,
     data  |-> [i \in Indices(<<1>> \o a.shape) |-> a.data[Tail(i)]]]

\* a[0]
Item0(a) ==
    [shape |-> Tail(a.shape),
     data  |-> [i \in Indices(Tail(a.shape)) |-> a.data[<<0>> \o i]]]

SetMax(S) == CHOOSE m \in S : \A x \in S : x <= m

\* np.max(pixel_index_map[:, :, :, axis])
MapMax(pmap, axis) ==
    SetMax({pmap.data[i] : i \in {j \in Indices(pmap.shape) : j[4] = axis}})

(***************************************************************************)
(* What a call does: it returns a value or raises.                         *)
(***************************************************************************)
NoValue == [shape |-> <<>>, data |-> <<>>]
NotCalled == [raised |-> "not called", value |-> NoValue]
Return(v) == [raised |-> "no", value |-> v]
Raise(e) == [raised |-> e, value |-> NoValue]
Returned(r) == r.raised = "no"
Raised(r) == r.raised \notin {"no", "not called"}

(***************************************************************************)
(* assemble_image_stack_batch                                              *)
(***************************************************************************)
\* the (fast, slow) places of panel l whose map entry is the cell (r, c)
Hits(pmap, l, r, c) ==
    {h \in Range(pmap.shape[2]) \X Range(pmap.shape[3]) :
        /\ pmap.data[<<l, h[1], h[2], 0>>] = r
        /\ pmap.data[<<l, h[1], h[2], 1>>] = c}

\* the one of them numpy assigns last (C order): its value is the one left
LastHit(H) ==
    CHOOSE h \in H : \A g \in H : g[1] < h[1] \/ (g[1] = h[1] /\ g[2] <= h[2])

\* images[:, pixel_index_map[l, :, :, 0], pixel_index_map[l, :, :, 1]]
\*     = image_stack[:, l, :, :]
SetPanel(imgs, stack, pmap, l) ==
    [imgs EXCEPT !.data =
        [i \in Indices(imgs.shape) |->
            LET H == Hits(pmap, l, i[2], i[3])
            IN  IF H = {} THEN imgs.data[i]
                ELSE stack.data[<<i[1], l, LastHit(H)[1], LastHit(H)[2]>>]]]

\* for l in range(panel_num): ...   (pixel_index_map[l] raises IndexError when
\* the map has no panel l)
RECURSIVE PanelLoop(_, _, _, _)
PanelLoop(imgs, stack, pmap, l) ==
    IF l = stack.shape[2] THEN Return(imgs)
    ELSE IF l >= pmap.shape[1] THEN Raise("IndexError")
    ELSE PanelLoop(SetPanel(imgs, stack, pmap, l), stack, pmap, l + 1)

SqueezeBug(a) == a

\* if a.shape[0] == 1: a = a[0]
Squeeze(a) == IF a.shape[1] = 1 THEN Item0(a) ELSE a

CanvasShapeBug(stack_num, pmap) ==
    <<stack_num, MapMax(pmap, 0), MapMax(pmap, 1)>>

\* (stack_num, index_max_x, index_max_y)
CanvasShape(stack_num, pmap) ==
    <<stack_num, MapMax(pmap, 0) + 1, MapMax(pmap, 1) + 1>>

assemble_image_stack_batch(stack_arg, pmap) ==
    LET stack == IF Len(stack_arg.shape) = 3 THEN ExpandDims(stack_arg)
                 ELSE stack_arg
        holder == Zeros(CanvasShape(stack.shape[1], pmap))
        filled == PanelLoop(holder, stack, pmap, 0)
    IN  IF Raised(filled) THEN filled ELSE Return(Squeeze(filled.value))

(***************************************************************************)
(* disassemble_image_stack_batch                                           *)
(***************************************************************************)
\* images[:, idx_map_1, idx_map_2] can be read
InCanvas(imgs, pmap) ==
    \A i \in Indices(pmap.shape) : pmap.data[i] < imgs.shape[i[4] + 2]

PanelReadPanel0(imgs, pmap, i) ==
    imgs.data[<<i[1], pmap.data[<<0, i[3], i[4], 0>>],
                      pmap.data[<<0, i[3], i[4], 1>>]>>]

\* element i = (n, panel, f, s) of
\*     images[:, pixel_index_map[panel, :, :, 0], pixel_index_map[panel, :, :, 1]]
PanelRead(imgs, pmap, i) ==
    imgs.data[<<i[1], pmap.data[<<i[2], i[3], i[4], 0>>],
                      pmap.data[<<i[2], i[3], i[4], 1>>]>>]

disassemble_image_stack_batch(imgs_arg, pmap) ==
    LET imgs == IF Len(imgs_arg.shape) = 2 THEN ExpandDims(imgs_arg)
                ELSE imgs_arg
        shape == <<imgs.shape[1]>> \o SubSeq(pmap.shape, 1, 3)
        batch == [shape |-> shape,
                  data  |-> [i \in Indices(shape) |-> PanelRead(imgs, pmap, i)]]
    IN  IF ~InCanvas(imgs, pmap) THEN Raise("IndexError")
        ELSE Return(Squeeze(batch))

(***************************************************************************)
(* The mapper's inputs.                                                    *)
(***************************************************************************)
\* the (panels, fast, slow) shapes of at most MaxPixels pixels
PanelShapes ==
    {s \in (1..MaxPixels) \X (1..MaxPixels) \X (1..MaxPixels) :
        s[1] * s[2] * s[3] <= MaxPixels}

\* index maps: pixel coordinates (never negative), shape (n_panels, fs, ss, 2)
IndexMaps ==
    UNION {NdArrays(<<s[1], s[2], s[3], 2>>, 0..MaxIdx) : s \in PanelShapes}

\* panel stacks whose panels have the map's panel shape; the number of
\* panels is the caller's, and so is the batch axis
ImageStacks(pmap) ==
    UNION {NdArrays(<<p, pmap.shape[2], pmap.shape[3]>>, PixelValues)
           \cup UNION {NdArrays(<<n, p, pmap.shape[2], pmap.shape[3]>>, PixelValues)
                       : n \in {m \in 1..MaxBatch :
                           m * p * pmap.shape[2] * pmap.shape[3] <= MaxElems}}
           : p \in {q \in 1..MaxPixels :
                        q * pmap.shape[2] * pmap.shape[3] <= MaxPixels}}

\* what a caller may hand to disassemble_image_stack_batch: the assembled
\* images as they are, or a single image with an explicit batch axis
DisassembleArgs(imgs) ==
    {imgs} \cup (IF Len(imgs.shape) = 2 THEN {ExpandDims(imgs)} ELSE {})

(***************************************************************************)
(* RawImageTimeTool: the events of a run                                   *)
(***************************************************************************)
\* A frame is what self.det.image(evt) gives: no image (the call raises, or
\* returns None and crop_image raises), or an image, held as the column sums
\* np.sum(self.crop_image(img), axis=0) of its cropped rows.
NoFrame == [image |-> FALSE, proj |-> <<>>]
Frames ==
    {NoFrame} \cup {[image |-> TRUE, proj |-> p] : p \in [1..ProjLen -> ProjValues]}

\* an event: the stage delay the epics store reports, and the camera frame
Events == [delay : Delays, frame : Frames]

Streams == UNION {[1..n -> Events] : n \in 0..MaxEvents}

(***************************************************************************)
(* RawImageTimeTool.ttstage_code                                           *)
(***************************************************************************)
LowerAsGiven(h) == h

\* hutch.lower()
Lower(h) ==
    CASE h = "XPP" -> "xpp"
      [] h = "Xcs" -> "xcs"
      [] h = "MFX" -> "mfx"
      [] h = "cXI" -> "cxi"
      [] h = "AMO" -> "amo"
      [] OTHER -> h

ttstage_code(h) ==
    LET num == CASE Lower(h) = "xpp" -> "3"
                 [] Lower(h) = "xcs" -> "4"
                 [] Lower(h) = "mfx" -> "45"
                 [] Lower(h) = "cxi" -> "5"
                 [] OTHER -> ""
    IN  IF num # "" THEN Return("LAS:FS" \o num \o ":VIT:FS_TGT_TIME_DIAL")
        ELSE Raise("InvalidHutchError")

(***************************************************************************)
(* RawImageTimeTool.detect_edges                                           *)
(***************************************************************************)
SeqMin(q) == CHOOSE m \in {q[i] : i \in DOMAIN q} : \A i \in DOMAIN q : m <= q[i]
SeqMax(q) == CHOOSE m \in {q[i] : i \in DOMAIN q} : \A i \in DOMAIN q : q[i] <= m

RECURSIVE SumFrom(_, _, _)
SumFrom(q, lo, hi) == IF lo > hi THEN 0 ELSE q[lo] + SumFrom(q, lo + 1, hi)

\* A float array whose elements share one denominator: element i is
\* num[i] / den, and NaN (0/0) when den = 0.
\* proj -= np.min(proj); proj /= np.max(proj)
Normalize(proj) ==
    LET shifted == [i \in DOMAIN proj |-> proj[i] - SeqMin(proj)]
    IN  [num |-> shifted, den |-> SeqMax(shifted)]

\* fftconvolve(proj, kernel, mode='same') with kernel = KernelHalf ones and
\* then KernelHalf zeros: element i (0-based) is the sum of proj[i .. i +
\* KernelHalf - 1]; a NaN in proj makes every element NaN
Convolve(proj) ==
    [num |-> [i \in DOMAIN proj.num |->
                 SumFrom(proj.num, i,
                         IF i + KernelHalf - 1 <= Len(proj.num)
                         THEN i + KernelHalf - 1 ELSE Len(proj.num))],
     den |-> proj.den]

\* conv.argmax(), 0-based: the first largest element, and the first NaN when
\* there is one
ArgMax(conv) ==
    IF conv.den = 0 THEN 0
    ELSE (CHOOSE i \in DOMAIN conv.num :
             /\ conv.num[i] = SeqMax(conv.num)
             /\ \A j \in DOMAIN conv.num : conv.num[j] = SeqMax(conv.num) => i <= j)
         - 1

\* conv[i], 0-based
ConvAt(conv, i) == [num |-> conv.num[i + 1], den |-> conv.den]

IsNaN(x) == x.den = 0

PopFirst(q) == Tail(q)

\* q.pop(-1)
PopLast(q) == SubSeq(q, 1, Len(q) - 1)

\* the try block raises: there is no image to crop
FrameRaises(frame) == ~frame.image

\* for idx, evt in enumerate(self.ds.events()): ...
RECURSIVE EventLoop(_, _, _, _, _)
EventLoop(events, idx, stage_pos, edge_pos, conv_ampl) ==
    IF idx > Len(events) THEN <<stage_pos, edge_pos, conv_ampl>>
    ELSE LET evt == events[idx]
             appended == Append(stage_pos, evt.delay)
             conv == Convolve(Normalize(evt.frame.proj))
         IN  IF FrameRaises(evt.frame)
             THEN EventLoop(events, idx + 1, PopLast(appended), edge_pos, conv_ampl)
             ELSE EventLoop(events, idx + 1, appended,
                            Append(edge_pos, ArgMax(conv)),
                            Append(conv_ampl, ConvAt(conv, ArgMax(conv))))

\* self.ds before open_run (no such attribute), and after it
NoDs == [open |-> FALSE, events |-> <<>>]
DataSource(events) == [open |-> TRUE, events |-> events]

\* the outcome of detect_edges: what it returns or raises
detect_edges(h, source) ==
    IF Raised(ttstage_code(h)) THEN Raise(ttstage_code(h).raised)
    ELSE IF ~source.open THEN Raise("AttributeError")
    ELSE Return(EventLoop(source.events, 1, <<>>, <<>>, <<>>))

(***************************************************************************)
(* RawImageTimeTool.fit_calib                                              *)
(***************************************************************************)
LowerEdge == 250
UpperEdge == 870

\* a[mask]
RECURSIVE BoolIndex(_, _)
BoolIndex(a, mask) ==
    IF a = <<>> THEN <<>>
    ELSE (IF Head(mask) THEN <<Head(a)>> ELSE <<>>) \o BoolIndex(Tail(a), Tail(mask))

\* mask.any()
AnyTrue(mask) == \E i \in DOMAIN mask : mask[i]

AboveLowerInclusive(edges) == [i \in DOMAIN edges |-> edges[i] >= LowerEdge]

\* edges > 250
AboveLower(edges) == [i \in DOMAIN edges |-> edges[i] > LowerEdge]

\* edges_fit < 870
BelowUpper(edges) == [i \in DOMAIN edges |-> edges[i] < UpperEdge]

\* the samples handed to np.polyfit, and whether they are the in-range ones
FitSelection(delays, edges) ==
    LET delays_1 == BoolIndex(delays, AboveLower(edges))
        edges_1 == BoolIndex(edges, AboveLower(edges))
    IN  IF AnyTrue(AboveLower(edges)) /\ AnyTrue(BelowUpper(edges_1))
        THEN [inrange |-> TRUE,
              x |-> BoolIndex(edges_1, BelowUpper(edges_1)),
              y |-> BoolIndex(delays_1, BelowUpper(edges_1))]
        ELSE [inrange |-> FALSE, x |-> edges, y |-> delays]

InRangeMessage == "Fitting calibration between 250 and 870 pixels."
OutOfRangeMessage == "Fit data is out of 250-870 pixel range. Results questionable."

FitMessageAlwaysInRange(inrange) == InRangeMessage

\* what fit_calib prints before it fits
FitMessage(inrange) == IF inrange THEN InRangeMessage ELSE OutOfRangeMessage

\* np.polyfit(x, y, deg): it raises on an empty x; its least squares
\* coefficients (deg + 1 of them, highest degree first) are a value of the
\* model's coefficients
np_polyfit(x, y, deg) ==
    IF Len(x) = 0 THEN {Raise("TypeError")}
    ELSE {Return(c) : c \in [1..(deg + 1) -> CoeffValues]}

(***************************************************************************)
(* RawImageTimeTool._model, jitter_correct, actual_time, model             *)
(***************************************************************************)
\* _model is a python list (as constructed) or a numpy array (np.polyfit's,
\* np.load's)
EmptyList == [type |-> "list", coeffs |-> <<>>]
NdArrayModel(c) == [type |-> "ndarray", coeffs |-> c]

FitStoresOrClears(fit, m) ==
    IF Returned(fit) THEN NdArrayModel(fit.value) ELSE EmptyList

\* self._model = np.polyfit(...): nothing is stored when np.polyfit raises
FitStores(fit, m) == IF Returned(fit) THEN NdArrayModel(fit.value) ELSE m

CoeffArrays == UNION {[1..n -> CoeffValues] : n \in 0..(DefaultOrder + 1)}

\* the outcomes of "if self._model:". A list is true when not empty. An array
\* of one element has that element's truth, an array of more raises
\* ValueError, and an empty array is false or raises ValueError, by the
\* numpy version.
Truth(m) ==
    IF m.type = "list" THEN {Return(Len(m.coeffs) > 0)}
    ELSE IF Len(m.coeffs) = 0 THEN {Return(FALSE), Raise("ValueError")}
    ELSE IF Len(m.coeffs) = 1 THEN {Return(m.coeffs[1] # 0)}
    ELSE {Raise("ValueError")}

RECURSIVE Power(_, _)
Power(b, e) == IF e = 0 THEN 1 ELSE b * Power(b, e - 1)

\* for i, coeff in enumerate(self._model): correction += coeff*edge_pos**(n-i-1)
RECURSIVE PolySum(_, _, _)
PolySum(c, edge_pos, i) ==
    IF i > Len(c) THEN 0
    ELSE c[i] * Power(edge_pos, Len(c) - i) + PolySum(c, edge_pos, i + 1)

UsingModelMessage == "Using model to correct for jitter."
NoModelMessage == "No calibration model. Jitter correction not possible."

InitialCorrectionOne == 0 + 1

\* correction = 0
InitialCorrection == 0

\* the outcomes of jitter_correct: [raised, value, printed]
jitter_correct(m, edge_pos) ==
    {IF Raised(t) THEN [raised |-> t.raised, value |-> 0, printed |-> <<>>]
     ELSE IF t.value
          THEN [raised |-> "no",
                value |-> (InitialCorrection + PolySum(m.coeffs, edge_pos, 1)) * 1000,
                printed |-> <<UsingModelMessage>>]
          ELSE [raised |-> "no", value |-> InitialCorrection * 1000,
                printed |-> <<NoModelMessage>>]
     : t \in Truth(m)}

actual_time_uncorrected(m, edge_pos, nominal_delay) ==
    {[j EXCEPT !.value = IF j.raised = "no" THEN nominal_delay ELSE 0]
     : j \in jitter_correct(m, edge_pos)}

\* the outcomes of actual_time
actual_time(m, edge_pos, nominal_delay) ==
    {[j EXCEPT !.value = IF j.raised = "no" THEN nominal_delay + j.value ELSE 0]
     : j \in jitter_correct(m, edge_pos)}

\* What the model property may be assigned: a list of coefficients, a file
\* name, or a value of another type.
SetterValues ==
    {[type |-> "list", coeffs |-> c, name |-> ""] : c \in CoeffArrays}
    \cup {[type |-> "str", coeffs |-> <<>>, name |-> n]
          : n \in {"model.npy", "model.txt", "model.yaml", "model.dat", "model"}}
    \cup {[type |-> "other", coeffs |-> <<>>, name |-> ""]}

\* val.split('.')[1]
Extension(name) ==
    CASE name = "model.npy" -> Return("npy")
      [] name = "model.txt" -> Return("txt")
      [] name = "model.yaml" -> Return("yaml")
      [] name = "model.dat" -> Return("dat")
      [] OTHER -> Raise("IndexError")

\* np.load(val): the array the file holds, if there is such a file
np_load == {Return(NdArrayModel(c)) : c \in CoeffArrays} \cup {Raise("OSError")}

NotUnderstoodMessage == "Entry not understood and model has not been changed."

ListBranchAssigns(m, val) ==
    {[model |-> [type |-> "list", coeffs |-> val.coeffs], raised |-> "no",
      printed |-> <<>>]}

\* if type(val) == list: self._model = model   (no name model is in scope)
ListBranch(m, val) == {[model |-> m, raised |-> "NameError", printed |-> <<>>]}

\* the outcomes of the model setter: [model, raised, printed]
model_setter(m, val) ==
    IF val.type = "list" THEN ListBranch(m, val)
    ELSE IF val.type = "str"
    THEN IF Raised(Extension(val.name))
         THEN {[model |-> m, raised |-> Extension(val.name).raised, printed |-> <<>>]}
         ELSE IF Extension(val.name).value = "npy"
         THEN {[model |-> IF Returned(f) THEN f.value ELSE m,
                raised |-> IF Returned(f) THEN "no" ELSE f.raised,
                printed |-> <<>>] : f \in np_load}
         ELSE {[model |-> m, raised |-> "no", printed |-> <<>>]}
    ELSE {[model |-> m, raised |-> "no", printed |-> <<NotUnderstoodMessage>>]}

\* the delays and edges fit_calib is given: arrays of one length
Samples ==
    UNION {[delays : [1..n -> Delays], edges : [1..n -> EdgeValues]]
           : n \in 0..MaxSamples}

NoSamples == [delays |-> <<>>, edges |-> <<>>]

(***************************************************************************)
(* PsanaInterface.distribute_events                                        *)
(***************************************************************************)
NumPerRankNoExtra(r, max_events_arg, total_ranks) == max_events_arg \div total_ranks

\* num_per_rank = max_events // total_ranks, one more for the first
\* max_events % total_ranks ranks
NumPerRank(r, max_events_arg, total_ranks) ==
    (max_events_arg \div total_ranks)
        + (IF r < max_events_arg % total_ranks THEN 1 ELSE 0)

\* np.cumsum of the first k of them
RECURSIVE CumSum(_, _, _)
CumSum(k, max_events_arg, total_ranks) ==
    IF k = 0 THEN 0
    ELSE CumSum(k - 1, max_events_arg, total_ranks)
             + NumPerRank(k - 1, max_events_arg, total_ranks)

\* split_indices: element k (from 0) is at place k + 1
split_indices(max_events_arg, total_ranks) ==
    [k \in 1..(total_ranks + 1) |-> CumSum(k - 1, max_events_arg, total_ranks)]

\* self.counter and self.max_events after distribute_events(rank, total_ranks,
\* max_events) on an interface whose max_events is self_max_events
distribute_events(self_max_events, rank, total_ranks, max_events_arg) ==
    LET M == IF max_events_arg = -1 THEN self_max_events ELSE max_events_arg
    IN  [counter |-> split_indices(M, total_ranks)[rank + 1],
         max_events |-> split_indices(M, total_ranks)[rank + 2]]

(***************************************************************************)
(* PsanaInterface.get_images                                               *)
(***************************************************************************)
NoMoreEventsMessage == "No more events to retrieve"

NoMoreEventsAfterLast(c, max) == c > max

\* if self.counter >= self.max_events
NoMoreEvents(c, max) == c >= max

\* what the detector gives for an event: its assembled image, or its
\* calibrated or raw panels
ImageOf(event, assemble, calib) ==
    [event |-> event,
     kind |-> IF assemble THEN "image" ELSE IF calib THEN "calib" ELSE "raw"]

\* for counter_batch in range(num_images): ...
\* the outcome: [counter, raised, images, printed]
RECURSIVE ImageLoop(_, _, _, _, _, _, _, _)
ImageLoop(c, max, evts, calib, num_images, assemble, counter_batch, imgs) ==
    IF counter_batch = num_images
    THEN [counter |-> c, raised |-> "no", images |-> imgs, printed |-> <<>>]
    ELSE IF NoMoreEvents(c, max)
    THEN [counter |-> c, raised |-> "no", images |-> imgs,
          printed |-> <<NoMoreEventsMessage>>]
    ELSE IF c >= Len(evts)
    THEN [counter |-> c, raised |-> "IndexError", images |-> <<>>, printed |-> <<>>]
    ELSE IF assemble /\ ~calib
    THEN [counter |-> c, raised |-> "IOError", images |-> <<>>, printed |-> <<>>]
    ELSE ImageLoop(c + 1, max, evts, calib, num_images, assemble,
                   counter_batch + 1,
                   Append(imgs, ImageOf(evts[c + 1], assemble, calib)))

\* np.zeros((num_images, ...)) raises ValueError for a negative num_images
get_images(c, max, evts, calib, num_images, assemble) ==
    IF num_images < 0
    THEN [counter |-> c, raised |-> "ValueError", images |-> <<>>, printed |-> <<>>]
    ELSE ImageLoop(c, max, evts, calib, num_images, assemble, 0, <<>>)

\* self.times of a run of n events: the event of index i is at place i + 1
RunTimes(n) == [i \in 1..n |-> i - 1]

(***************************************************************************)
(* The calls.                                                              *)
(***************************************************************************)
Call(op, args, raised, value, printed) ==
    [op |-> op, args |-> args, raised |-> raised, value |-> value,
     printed |-> printed]

NoCall == Call("__init__", <<>>, "no", <<>>, <<>>)

MapperIdle ==
    /\ pixel_index_map = NoValue
    /\ image_stack = NoValue
    /\ images = NotCalled
    /\ image_stack_batch = NotCalled
    /\ disassemble_arg = NoValue

\* no PsanaInterface is used: the interface of a run without events
InterfaceIdle ==
    /\ counter = 0
    /\ max_events = 0
    /\ times = <<>>
    /\ calibrate = FALSE

\* RawImageTimeTool.__init__
ToolInit(hutches, runs, samples) ==
    /\ hutch \in hutches
    /\ _model = EmptyList
    /\ ds = NoDs
    /\ rundata \in runs
    /\ calib_data \in samples
    /\ last = NoCall

InitMapper ==
    /\ pixel_index_map \in IndexMaps
    /\ image_stack \in ImageStacks(pixel_index_map)
    /\ images = NotCalled
    /\ image_stack_batch = NotCalled
    /\ disassemble_arg = NoValue
    /\ InterfaceIdle
    /\ ToolInit({"mfx"}, {<<>>}, {NoSamples})

Assemble ==
    /\ images = NotCalled
    /\ images' = assemble_image_stack_batch(image_stack, pixel_index_map)
    /\ UNCHANGED <<pixel_index_map, image_stack, image_stack_batch, disassemble_arg>>
    /\ UNCHANGED <<tool_vars, interface_vars>>

Disassemble ==
    /\ Returned(images)
    /\ image_stack_batch = NotCalled
    /\ \E arg \in DisassembleArgs(images.value) :
          /\ disassemble_arg' = arg
          /\ image_stack_batch' = disassemble_image_stack_batch(arg, pixel_index_map)
    /\ UNCHANGED <<pixel_index_map, image_stack, images>>
    /\ UNCHANGED <<tool_vars, interface_vars>>

NextMapper == Assemble \/ Disassemble

SpecMapper == InitMapper /\ [][NextMapper]_vars

\* open_run: self.ds is the run's data source
OpenRun ==
    /\ ds' = DataSource(rundata)
    /\ last' = Call("open_run", <<>>, "no", <<>>, <<>>)
    /\ UNCHANGED <<hutch, _model, rundata, calib_data>>
    /\ UNCHANGED <<mapper_vars, interface_vars>>

DetectEdges ==
    /\ last' = Call("detect_edges", ds, detect_edges(hutch, ds).raised,
                    detect_edges(hutch, ds).value, <<>>)
    /\ UNCHANGED <<hutch, _model, ds, rundata, calib_data>>
    /\ UNCHANGED <<mapper_vars, interface_vars>>

\* fit_calib(delays, edges, amplitudes, None, order) on the caller's samples
FitCalib ==
    \E order \in 0..DefaultOrder :
        LET sel == FitSelection(calib_data.delays, calib_data.edges)
        IN  \E fit \in np_polyfit(sel.x, sel.y, order) :
               /\ _model' = FitStores(fit, _model)
               /\ last' = Call("fit_calib", order, fit.raised,
                               <<sel.x, sel.y, order>>, <<FitMessage(sel.inrange)>>)
               /\ UNCHANGED <<hutch, ds, rundata, calib_data>>
               /\ UNCHANGED <<mapper_vars, interface_vars>>

JitterCorrect ==
    \E edge_pos \in EdgePositions :
    \E j \in jitter_correct(_model, edge_pos) :
        /\ last' = Call("jitter_correct", <<edge_pos>>, j.raised, j.value, j.printed)
        /\ UNCHANGED <<hutch, _model, ds, rundata, calib_data>>
        /\ UNCHANGED <<mapper_vars, interface_vars>>

ActualTime ==
    \E edge_pos \in EdgePositions, nominal_delay \in NominalDelays :
    \E t \in actual_time(_model, edge_pos, nominal_delay) :
        /\ last' = Call("actual_time", <<edge_pos, nominal_delay>>, t.raised,
                        t.value, t.printed)
        /\ UNCHANGED <<hutch, _model, ds, rundata, calib_data>>
        /\ UNCHANGED <<mapper_vars, interface_vars>>

\* the model property, read
GetModel ==
    /\ last' = Call("model", <<>>, "no", _model, <<>>)
    /\ UNCHANGED <<hutch, _model, ds, rundata, calib_data>>
    /\ UNCHANGED <<mapper_vars, interface_vars>>

\* the model property, assigned
SetModel ==
    \E val \in SetterValues :
    \E s \in model_setter(_model, val) :
        /\ _model' = s.model
        /\ last' = Call("model.setter", val, s.raised, <<>>, s.printed)
        /\ UNCHANGED <<hutch, ds, rundata, calib_data>>
        /\ UNCHANGED <<mapper_vars, interface_vars>>

\* the run of the calibrator's specification: a missing frame, then a frame
\* without contrast
SomeRuns ==
    {<<[delay |-> 1, frame |-> NoFrame],
       [delay |-> 2, frame |-> [image |-> TRUE, proj |-> [i \in 1..ProjLen |-> 1]]]>>}

\* its samples: none, one in range, one out of range
SomeSamples ==
    {NoSamples,
     [delays |-> <<1>>, edges |-> <<251>>],
     [delays |-> <<2>>, edges |-> <<870>>]}

Init == MapperIdle /\ InterfaceIdle /\ ToolInit({"mfx", "amo"}, SomeRuns, SomeSamples)

Next ==
    \/ OpenRun
    \/ DetectEdges
    \/ FitCalib
    \/ JitterCorrect
    \/ ActualTime
    \/ GetModel
    \/ SetModel

Spec == Init /\ [][Next]_vars

\* ttstage_code(hutch), called by the user
TtstageCode ==
    \E h \in Hutches :
        /\ last' = Call("ttstage_code", <<h>>, ttstage_code(h).raised,
                        ttstage_code(h).value, <<>>)
        /\ UNCHANGED <<hutch, _model, ds, rundata, calib_data>>
        /\ UNCHANGED <<mapper_vars, interface_vars>>

\* the stage channel of every hutch of the model, asked for and used by
\* detect_edges
InitHutch == MapperIdle /\ InterfaceIdle /\ ToolInit(Hutches, SomeRuns, {NoSamples})

NextHutch == OpenRun \/ DetectEdges \/ TtstageCode

SpecHutch == InitHutch /\ [][NextHutch]_vars

\* PsanaInterface.__init__ and set_up: counter is 0 and max_events the number
\* of the run's events, at least one (set_up reads self.times[0]); calibrate
\* is whether the run has pedestals and gains
InitInterface ==
    /\ MapperIdle
    /\ ToolInit({"mfx"}, {<<>>}, {NoSamples})
    /\ counter = 0
    /\ \E n \in 1..MaxTimes : times = RunTimes(n)
    /\ max_events = Len(times)
    /\ calibrate \in BOOLEAN

DistributeEvents ==
    \E total_ranks \in 1..MaxRanks :
    \E rank \in 0..(total_ranks - 1), max_events_arg \in {-1} \cup (0..MaxTimes) :
        LET d == distribute_events(max_events, rank, total_ranks, max_events_arg)
        IN  /\ counter' = d.counter
            /\ max_events' = d.max_events
            /\ last' = Call("distribute_events",
                            [rank |-> rank, total_ranks |-> total_ranks,
                             max_events |-> max_events_arg,
                             self_max_events |-> max_events],
                            "no", <<>>, <<>>)
            /\ UNCHANGED <<times, calibrate>>
            /\ UNCHANGED <<hutch, _model, ds, rundata, calib_data>>
            /\ UNCHANGED mapper_vars

GetImages ==
    \E num_images \in (-1)..MaxImages, assemble \in BOOLEAN :
        LET g == get_images(counter, max_events, times, calibrate, num_images,
                            assemble)
        IN  /\ counter' = g.counter
            /\ last' = Call("get_images",
                            [num_images |-> num_images, assemble |-> assemble],
                            g.raised, g.images, g.printed)
            /\ UNCHANGED <<max_events, times, calibrate>>
            /\ UNCHANGED <<hutch, _model, ds, rundata, calib_data>>
            /\ UNCHANGED mapper_vars

NextInterface == DistributeEvents \/ GetImages

SpecInterface == InitInterface /\ [][NextInterface]_vars

\* edge detection on every run of the model
InitEdges == MapperIdle /\ InterfaceIdle /\ ToolInit({"mfx", "amo"}, Streams, {NoSamples})

NextEdges == OpenRun \/ DetectEdges

SpecEdges == InitEdges /\ [][NextEdges]_vars

\* fit_calib on every sample set of the model
InitFit == MapperIdle /\ InterfaceIdle /\ ToolInit({"mfx"}, {<<>>}, Samples)

NextFit == FitCalib

SpecFit == InitFit /\ [][NextFit]_vars

(***************************************************************************)
(* The panel mapper's properties, under SpecMapper.                        *)
(***************************************************************************)
\* the (panel, fast, slow) places of an index map
Places(pmap) == Indices(SubSeq(pmap.shape, 1, 3))

\* the (row, col) a place is mapped to
Target(pmap, l) == <<pmap.data[l \o <<0>>], pmap.data[l \o <<1>>]>>

\* no two places share a target
Bijective(pmap) ==
    \A k, l \in Places(pmap) : k # l => Target(pmap, k) # Target(pmap, l)

\* the stack has as many panels as the map
SamePanels(stack, pmap) == stack.shape[Len(stack.shape) - 2] = pmap.shape[1]

\* an array with its batch axis, added when it has none
Batched(a, ndim) == IF Len(a.shape) = ndim THEN a ELSE ExpandDims(a)

\* the images of a bijective map, taken apart again as they were returned
RoundTripCase ==
    /\ Bijective(pixel_index_map)
    /\ SamePanels(image_stack, pixel_index_map)
    /\ image_stack_batch # NotCalled
    /\ disassemble_arg = images.value

\* C1, as claimed: disassembling the assembled images of a bijective map
\* returns the panel stack that was assembled, shape and values, for a single
\* stack and for a batch of any size, a batch of one included.
C1_RoundTripExact ==
    RoundTripCase =>
        Returned(image_stack_batch) /\ image_stack_batch.value = image_stack

\* C1, amended: disassembling the assembled images of a bijective map returns
\* the panel stack that was assembled, shape and values, when it is a single
\* stack or a batch of two or more; for a batch of one it returns that batch's
\* only stack, X[0], without the batch axis.
C1_RoundTrip ==
    RoundTripCase =>
        /\ Returned(image_stack_batch)
        /\ image_stack_batch.value =
               IF Len(image_stack.shape) = 4 /\ image_stack.shape[1] = 1
               THEN Item0(image_stack) ELSE image_stack

C1_Witness ==
    /\ RoundTripCase
    /\ Returned(image_stack_batch)
    /\ image_stack.shape = <<2, 2, 1, 1>>
    /\ image_stack.data[<<0, 0, 0, 0>>] # image_stack.data[<<0, 1, 0, 0>>]
    /\ image_stack.data[<<0, 0, 0, 0>>] # image_stack.data[<<1, 0, 0, 0>>]

\* C2: assemble returns a 2d image for a 3d stack and for a batch of one, and a
\* 3d array led by the batch size for a batch of two or more; disassemble
\* returns a 3d stack for a 2d image and for a batch of one, and a 4d array led
\* by the batch size for a batch of two or more.
C2_BatchSqueeze ==
    /\ Returned(images) =>
          IF Len(image_stack.shape) = 3 \/ image_stack.shape[1] = 1
          THEN Len(images.value.shape) = 2
          ELSE /\ Len(images.value.shape) = 3
               /\ images.value.shape[1] = image_stack.shape[1]
    /\ Returned(image_stack_batch) =>
          IF Len(disassemble_arg.shape) = 2 \/ disassemble_arg.shape[1] = 1
          THEN Len(image_stack_batch.value.shape) = 3
          ELSE /\ Len(image_stack_batch.value.shape) = 4
               /\ image_stack_batch.value.shape[1] = disassemble_arg.shape[1]

C2_Witness ==
    /\ Returned(images)
    /\ Len(image_stack.shape) = 4
    /\ image_stack.shape[1] = 1
    /\ Returned(image_stack_batch)
    /\ Len(disassemble_arg.shape) = 3
    /\ disassemble_arg.shape[1] = 1

\* C3: for a stack with the map's panels, the canvas is one higher than the
\* map's largest row and one wider than its largest column, every place whose
\* target no other place shares has its value at its target, and every cell no
\* place is mapped to holds zero.
C3_AssemblePlacement ==
    (images # NotCalled /\ SamePanels(image_stack, pixel_index_map)) =>
        /\ Returned(images)
        /\ LET pmap == pixel_index_map
               stack == Batched(image_stack, 4)
               canvas == Batched(images.value, 3)
           IN  /\ canvas.shape[1] = stack.shape[1]
               /\ \A l \in Places(pmap) :
                     /\ Target(pmap, l)[1] < canvas.shape[2]
                     /\ Target(pmap, l)[2] < canvas.shape[3]
               /\ \E l \in Places(pmap) : Target(pmap, l)[1] = canvas.shape[2] - 1
               /\ \E l \in Places(pmap) : Target(pmap, l)[2] = canvas.shape[3] - 1
               /\ \A n \in Range(stack.shape[1]), l \in Places(pmap) :
                     (\A k \in Places(pmap) :
                         k # l => Target(pmap, k) # Target(pmap, l))
                     => canvas.data[<<n>> \o Target(pmap, l)] = stack.data[<<n>> \o l]
               /\ \A i \in Indices(canvas.shape) :
                     (\A l \in Places(pmap) : Target(pmap, l) # <<i[2], i[3]>>)
                     => canvas.data[i] = 0

C3_Witness ==
    /\ Returned(images)
    /\ SamePanels(image_stack, pixel_index_map)
    /\ Len(image_stack.shape) = 3
    /\ Bijective(pixel_index_map)
    /\ \E l \in Places(pixel_index_map) :
          /\ image_stack.data[l] = 1
          /\ images.value.data[Target(pixel_index_map, l)] = 1
    /\ \E i \in Indices(images.value.shape) :
          \A l \in Places(pixel_index_map) : Target(pixel_index_map, l) # i

\* C4: when the image stack has more or fewer panels than the index map,
\* assemble ends in an error and returns no image.
C4_MismatchIsFatal ==
    (images # NotCalled /\ ~SamePanels(image_stack, pixel_index_map)) =>
        Raised(images)

(***************************************************************************)
(* detect_edges' properties, under SpecEdges.                              *)
(***************************************************************************)
HasImage(evt) == evt.frame.image

\* detect_edges returned
Detected == last.op = "detect_edges" /\ last.raised = "no"

\* C5: the delays, edge positions and amplitudes detect_edges returns are as
\* many as the events that did not fail; entry i of each is that of the i-th
\* such event, in the order of the events; a failed event leaves no delay and
\* does not stop the events after it.
C5_FrameSkipAlignment ==
    Detected =>
        LET events == last.args.events
            kept == SelectSeq(events, HasImage)
            failed == {i \in DOMAIN events : ~HasImage(events[i])}
            conv(evt) == Convolve(Normalize(evt.frame.proj))
        IN  /\ Len(last.value[1]) = Len(events) - Cardinality(failed)
            /\ Len(last.value[2]) = Len(last.value[1])
            /\ Len(last.value[3]) = Len(last.value[1])
            /\ \A i \in DOMAIN kept :
                  /\ last.value[1][i] = kept[i].delay
                  /\ last.value[2][i] = ArgMax(conv(kept[i]))
                  /\ last.value[3][i] = ConvAt(conv(kept[i]), ArgMax(conv(kept[i])))

C5_Witness ==
    /\ Detected
    /\ Len(last.args.events) = 2
    /\ ~HasImage(last.args.events[1])
    /\ HasImage(last.args.events[2])
    /\ last.args.events[1].delay = 1
    /\ last.value[1] = <<2>>
    /\ last.value[2] = <<1>>

\* C6: detect_edges returns no edge position or amplitude computed from a
\* projection without dynamic range: such an event is an explicit error.
C6_DegenerateIsError ==
    Detected =>
        /\ \A i \in DOMAIN last.value[3] : ~IsNaN(last.value[3][i])
        /\ \A i \in DOMAIN last.args.events :
              HasImage(last.args.events[i]) =>
                  SeqMax(last.args.events[i].frame.proj)
                      # SeqMin(last.args.events[i].frame.proj)

(***************************************************************************)
(* fit_calib's properties, under SpecFit.                                  *)
(***************************************************************************)
InWindow(e) == 250 < e /\ e < 870

\* the places of the samples whose edge is in the window, in order
WindowPlaces(edges) ==
    SelectSeq([i \in 1..Len(edges) |-> i], LAMBDA i : InWindow(edges[i]))

Fitted == last.op = "fit_calib"

\* C7: fit_calib fits the samples whose edge e has 250 < e < 870, delays and
\* edges place by place, when there is one; when there is none it fits all
\* the samples.
C7_FitSampleSelection ==
    Fitted =>
        LET edges == calib_data.edges
            delays == calib_data.delays
            at == WindowPlaces(edges)
        IN  IF Len(at) > 0
            THEN /\ last.value[1] = [k \in DOMAIN at |-> edges[at[k]]]
                 /\ last.value[2] = [k \in DOMAIN at |-> delays[at[k]]]
                 /\ last.printed = <<InRangeMessage>>
            ELSE /\ last.value[1] = edges
                 /\ last.value[2] = delays

C7_Witness ==
    /\ Fitted
    /\ calib_data.edges = <<250, 869>>
    /\ calib_data.delays = <<1, 2>>
    /\ last.value[1] = <<869>>
    /\ last.value[2] = <<2>>
    /\ last.raised = "no"

AllOutside(edges) == \A i \in DOMAIN edges : ~InWindow(edges[i])

FallbackHolds ==
    /\ last.raised = "no"
    /\ _model.type = "ndarray"
    /\ Len(_model.coeffs) = last.args + 1
    /\ last.printed = <<OutOfRangeMessage>>

\* C8, as claimed: for any samples whose edges are all outside (250, 870),
\* fit_calib does not raise, leaves a model of order + 1 coefficients and
\* signals that the result is questionable.
C8_FallbackNeverFails ==
    (Fitted /\ AllOutside(calib_data.edges)) => FallbackHolds

\* C8, amended: for any samples, at least one, whose edges are all outside
\* (250, 870), fit_calib does not raise, leaves a model of order + 1
\* coefficients and signals that the result is questionable.
C8_FallbackOfSomeSamples ==
    (Fitted /\ AllOutside(calib_data.edges) /\ Len(calib_data.edges) > 0)
        => FallbackHolds

C8_Witness ==
    /\ Fitted
    /\ calib_data.edges = <<870, 250>>
    /\ last.args = 2
    /\ last.raised = "no"
    /\ Len(_model.coeffs) = 3

(***************************************************************************)
(* The calibrator's properties, under Spec.                                *)
(***************************************************************************)
IsEmpty(m) == Len(m.coeffs) = 0

FitSucceeded == last'.op = "fit_calib" /\ last'.raised = "no"

Assigned == last'.op = "model.setter"

ReadOnlyCall ==
    last'.op \in {"open_run", "detect_edges", "jitter_correct", "actual_time", "model"}

\* C9, as claimed: the model starts empty; it goes from empty to not empty
\* only in a fit_calib that succeeds; open_run, detect_edges, jitter_correct,
\* actual_time and reading the model property never change it; and it goes from
\* not empty to empty only when the model property is assigned.
C9_OnlyFitCalibrates ==
    /\ IsEmpty(_model)
    /\ [][/\ (IsEmpty(_model) /\ ~IsEmpty(_model')) => FitSucceeded
          /\ ReadOnlyCall => _model' = _model
          /\ (~IsEmpty(_model) /\ IsEmpty(_model')) => Assigned]_vars

\* C9, amended: the model starts empty; it changes, and so goes from empty to
\* not empty, only in a fit_calib that succeeds or when the model property is
\* assigned; open_run, detect_edges, jitter_correct, actual_time and reading
\* the model property never change it; and it goes from not empty to empty
\* only when the model property is assigned.
C9_ModelChanges ==
    /\ IsEmpty(_model)
    /\ [][/\ _model' # _model => (FitSucceeded \/ Assigned)
          /\ ReadOnlyCall => _model' = _model
          /\ (~IsEmpty(_model) /\ IsEmpty(_model')) => Assigned]_vars

C9_Witness ==
    /\ last.op = "fit_calib"
    /\ last.raised = "no"
    /\ ~IsEmpty(_model)

\* C10: with the model as constructed, never fit and never set, jitter_correct
\* returns 0 for every edge position and does not raise.
C10_UncalibratedCorrection ==
    (last.op = "jitter_correct" /\ _model = EmptyList) =>
        (last.raised = "no" /\ last.value = 0)

C10_Witness ==
    /\ last.op = "jitter_correct"
    /\ _model = EmptyList
    /\ last.args = <<10>>
    /\ last.value = 0

\* C11: whenever the model holds coefficients, those a fit_calib that
\* succeeded stored included, jitter_correct does not raise and returns 1000
\* times the polynomial of the coefficients, highest degree first, at the edge
\* position.
C11_CalibratedCorrection ==
    (last.op = "jitter_correct" /\ ~IsEmpty(_model)) =>
        /\ last.raised = "no"
        /\ last.value = 1000 * PolySum(_model.coeffs, last.args[1], 1)

\* C12: whatever the model, actual_time ends as nominal_delay +
\* jitter_correct(edge_pos) does: it returns the nominal delay plus the
\* correction jitter_correct returns, and raises what jitter_correct raises;
\* with the model as constructed it returns the nominal delay unchanged.
C12_ActualTime ==
    last.op = "actual_time" =>
        /\ \E j \in jitter_correct(_model, last.args[1]) :
              /\ last.raised = j.raised
              /\ j.raised = "no" => last.value = last.args[2] + j.value
        /\ last.raised = "no" =>
              last.value = last.args[2] + 1000 * PolySum(_model.coeffs, last.args[1], 1)
        /\ _model = EmptyList =>
              (last.raised = "no" /\ last.value = last.args[2])

C12_Witness ==
    /\ last.op = "actual_time"
    /\ _model = NdArrayModel(<<1>>)
    /\ last.args = <<10, 5>>
    /\ last.raised = "no"
    /\ last.value = 1005

(***************************************************************************)
(* ttstage_code's properties, under SpecHutch.                             *)
(***************************************************************************)
\* the channel of a hutch, in any case of its letters: none when the hutch is
\* not one of the four
Channel(h) ==
    CASE h \in {"xpp", "XPP"} -> "LAS:FS3:VIT:FS_TGT_TIME_DIAL"
      [] h \in {"xcs", "Xcs"} -> "LAS:FS4:VIT:FS_TGT_TIME_DIAL"
      [] h \in {"mfx", "MFX"} -> "LAS:FS45:VIT:FS_TGT_TIME_DIAL"
      [] h \in {"cxi", "cXI"} -> "LAS:FS5:VIT:FS_TGT_TIME_DIAL"
      [] OTHER -> "none"

\* C13: ttstage_code returns the channel LAS:FS3/FS4/FS45/FS5:VIT:FS_TGT_TIME_DIAL
\* for xpp, xcs, mfx, cxi in any case of their letters, and raises
\* InvalidHutchError for every other hutch; detect_edges of a tool of another
\* hutch raises InvalidHutchError and returns nothing, whatever the run.
C13_StageChannel ==
    /\ last.op = "ttstage_code" =>
          IF Channel(last.args[1]) = "none"
          THEN last.raised = "InvalidHutchError"
          ELSE last.raised = "no" /\ last.value = Channel(last.args[1])
    /\ (last.op = "detect_edges" /\ Channel(hutch) = "none") =>
          last.raised = "InvalidHutchError"
    /\ (last.op = "detect_edges" /\ last.raised = "InvalidHutchError") =>
          Channel(hutch) = "none"

C13_Witness ==
    /\ last.op = "ttstage_code"
    /\ last.args = <<"MFX">>
    /\ last.raised = "no"
    /\ last.value = "LAS:FS45:VIT:FS_TGT_TIME_DIAL"
    /\ hutch = "AMO"
    /\ ds.open
    /\ Len(ds.events) > 0

\* C14: assigning a list of coefficients to the model property does not raise
\* and leaves that list as the model the property returns; assigning a value
\* that is neither a list nor a string leaves the model as it was.
C14_ModelSetter ==
    [][last'.op = "model.setter" =>
          /\ last'.args.type = "list" =>
                /\ last'.raised = "no"
                /\ _model' = [type |-> "list", coeffs |-> last'.args.coeffs]
          /\ last'.args.type = "other" => _model' = _model]_vars

(***************************************************************************)
(* The PsanaInterface's properties, under SpecInterface.                   *)
(***************************************************************************)
Distributed == last.op = "distribute_events"

\* the number of events distributed: the one given, or else the interface's
DistributedEvents ==
    IF last.args.max_events = -1 THEN last.args.self_max_events
    ELSE last.args.max_events

\* the range distribute_events(r, total_ranks) leaves on an interface as the
\* one that was called
RankRange(r) ==
    distribute_events(last.args.self_max_events, r, last.args.total_ranks,
                      last.args.max_events)

RangeSize(r) == RankRange(r).max_events - RankRange(r).counter

\* C15: distribute_events(rank, R) for M events leaves rank's counter and
\* max_events such that the ranges [counter, max_events) of the ranks 0..R-1
\* follow one another from 0 to M, so that every event of [0, M) is in one
\* range only, and no two sizes differ by more than 1, the ranks below M mod R
\* having the extra event.
C15_EvenDistribution ==
    Distributed =>
        LET R == last.args.total_ranks
            M == DistributedEvents
        IN  /\ counter = RankRange(last.args.rank).counter
            /\ max_events = RankRange(last.args.rank).max_events
            /\ RankRange(0).counter = 0
            /\ RankRange(R - 1).max_events = M
            /\ \A r \in 0..(R - 1) : RankRange(r).counter <= RankRange(r).max_events
            /\ \A r \in 0..(R - 2) : RankRange(r).max_events = RankRange(r + 1).counter
            /\ \A e \in 0..(M - 1) :
                  Cardinality({r \in 0..(R - 1) :
                      RankRange(r).counter <= e /\ e < RankRange(r).max_events}) = 1
            /\ \A r, s \in 0..(R - 1) :
                  /\ RangeSize(r) - RangeSize(s) <= 1
                  /\ RangeSize(r) > RangeSize(s) => (r < M % R /\ s >= M % R)
            /\ \A r \in 0..(R - 1) : r < M % R => RangeSize(r) = (M \div R) + 1

C15_Witness ==
    /\ Distributed
    /\ Len(times) = 4
    /\ last.args = [rank |-> 1, total_ranks |-> 3, max_events |-> -1,
                    self_max_events |-> 4]
    /\ counter = 2
    /\ max_events = 3

GotImages == last'.op = "get_images" /\ last'.raised = "no"

\* the indices of the events whose images a call returned, in order
EventsOf(imgs) == [k \in DOMAIN imgs |-> imgs[k].event]

Smaller(a, b) == IF a < b THEN a ELSE b

\* C16: counter never exceeds max_events; a get_images(n) that succeeds
\* returns min(n, max_events - counter) images, those of the events of index
\* counter, counter + 1, ... in order, and adds that number to counter, leaving
\* max_events alone; with counter at max_events it returns no image and leaves
\* counter where it was.
C16_SequentialRetrieval ==
    /\ [](counter <= max_events)
    /\ [][GotImages =>
             LET n == last'.args.num_images
                 k == Smaller(n, max_events - counter)
             IN  /\ Len(last'.value) = k
                 /\ EventsOf(last'.value) = [i \in 1..k |-> counter + i - 1]
                 /\ counter' = counter + k
                 /\ max_events' = max_events
                 /\ counter = max_events =>
                       (last'.value = <<>> /\ counter' = counter)]_vars

C16_Witness ==
    /\ last.op = "get_images"
    /\ last.raised = "no"
    /\ last.args.num_images = 3
    /\ EventsOf(last.value) = <<2, 3>>
    /\ counter = 4
    /\ max_events = 4

=============================================================================
